---- MODULE Spec2Model ----
(***************************************************************************)
(* jtssql.Storage (src/jtssql/storage.py): a handle on a relational store  *)
(* that lists, creates, drops, reflects, reads and writes tables whose     *)
(* store name is prefix + logical name.                                    *)
(*                                                                         *)
(* Strings that the code takes apart (table names, the prefix) are         *)
(* sequences of one-character strings, so that startswith and replace are  *)
(* computed.  A raised Python exception is a record [kind, arg].           *)
(***************************************************************************)
EXTENDS Integers, Sequences, FiniteSets, TLC

VARIABLES
    store,    \* the database: store table name -> table (columns, rows)
    tables,   \* handle -> its __tables cache
    expect,   \* history: logical name -> what create and write were given
    last      \* the call made last: its arguments, pre-state and outcome

vars == <<store, tables, expect, last>>

(***************************************************************************)
(* Bounds                                                                  *)
(***************************************************************************)
\* most rows a table holds, and most rows of one batch handed to write
MaxRows == 3
\* most rows a table written with update keys holds
MaxKeyedRows == 3

(***************************************************************************)
(* Strings                                                                 *)
(***************************************************************************)
\* whether old occurs in s
Contains(s, p) ==
    \E i \in 1..(Len(s) + 1) :
        i + Len(p) - 1 <= Len(s) /\ SubSeq(s, i, i + Len(p) - 1) = p
\* str.startswith(prefix)
StartsWithAnywhere(s, p) == Contains(s, p)
StartsWith(s, p) == Len(s) >= Len(p) /\ SubSeq(s, 1, Len(p)) = p

\* str.replace(old, '', 1): the first occurrence of old is removed
Replace1(s, old) ==
    IF ~Contains(s, old) THEN s
    ELSE LET i == CHOOSE k \in 1..(Len(s) + 1) :
                    /\ k + Len(old) - 1 <= Len(s)
                    /\ SubSeq(s, k, k + Len(old) - 1) = old
                    /\ \A j \in 1..(k - 1) :
                          SubSeq(s, j, j + Len(old) - 1) # old
         IN SubSeq(s, 1, i - 1) \o SubSeq(s, i + Len(old), Len(s))

\* membership in a Python list
InList(x, l) == \E i \in 1..Len(l) : l[i] = x

(***************************************************************************)
(* Configuration and input sets                                            *)
(***************************************************************************)
\* the prefix the handles are constructed with
Prefix == <<"p">>
Handles == {"A", "B"}
\* logical table names callers pass
Names == {<<"a">>, <<"p", "a">>}
\* every table name of the store, in the order engine.table_names() reports
StoreOrder == << <<"a", "p">>, <<"p", "a">>, <<"p", "p", "a">> >>
StoreNames == {StoreOrder[i] : i \in 1..Len(StoreOrder)}
\* tables of the store that no handle with this prefix can have created
ForeignNames == {<<"a", "p">>}

FieldNames == {"id", "x"}
SupportedTypes == {"string", "integer", "number", "boolean"}
FieldTypes == SupportedTypes \cup {"any", "date"}
\* the types each field is given by the callers
IdTypes == SupportedTypes \cup {"any"}
XTypes == {"string", "date"}
Fields ==
    {f \in [name : FieldNames, type : FieldTypes] :
        f.type \in (IF f.name = "id" THEN IdTypes ELSE XTypes)}
\* schema['fields']: one or two fields with distinct names
Schemas ==
    {<<f>> : f \in Fields}
    \cup {<<f, g>> : <<f, g>> \in {p \in Fields \X Fields : p[1].name # p[2].name}}

(***************************************************************************)
(* Exceptions                                                              *)
(***************************************************************************)
NoError == [kind |-> "None", arg |-> "None"]
Raise(kind, arg) == [kind |-> kind, arg |-> arg]

(***************************************************************************)
(* The store (the engine and the database behind it)                       *)
(***************************************************************************)
NoTable == [exists |-> FALSE, columns |-> <<>>, rows |-> <<>>]

\* engine.table_names(schema=dbschema)
table_names(st) == SelectSeq(StoreOrder, LAMBDA s : st[s].exists)

\* the DDL type a generic SQLAlchemy type is created as, which is the class
\* reflection reports for the column
CompileType(t) ==
    CASE t = "Text" -> "TEXT"
      [] t = "Integer" -> "INTEGER"
      [] t = "Float" -> "FLOAT"
      [] t = "Boolean" -> "BOOLEAN"

\* dbtable.create(engine)
DbCreate(st, name, columns) ==
    IF st[name].exists
    THEN [err |-> Raise("StoreError", "table exists"), store |-> st]
    ELSE [err |-> NoError,
          store |-> [st EXCEPT ![name] =
                        [exists |-> TRUE,
                         columns |-> [i \in 1..Len(columns) |->
                                        [name |-> columns[i].name,
                                         type |-> CompileType(columns[i].type)]],
                         rows |-> <<>>]]]

\* dbtable.drop(engine)
DbDrop(st, name) ==
    IF ~st[name].exists
    THEN [err |-> Raise("StoreError", "no such table"), store |-> st]
    ELSE [err |-> NoError, store |-> [st EXCEPT ![name] = NoTable]]

\* Table(name, MetaData(), autoload=True, autoload_with=engine)
Autoload(st, name) ==
    IF name \in StoreNames /\ st[name].exists
    THEN [err |-> NoError, columns |-> st[name].columns]
    ELSE [err |-> Raise("NoSuchTableError", "reflect"), columns |-> <<>>]

\* conn.execute(select([table])): the rows in insertion order
DbSelect(st, name) == st[name].rows

\* conn.execute(table.insert(), cdata): one row per record of cdata, each
\* record's values laid out by column name in the table's column order
DbInsert(st, name, cdata) ==
    LET cols == st[name].columns
        new == [k \in 1..Len(cdata) |->
                    [i \in 1..Len(cols) |-> cdata[k][cols[i].name]]]
    IN [st EXCEPT ![name].rows = @ \o new]

(***************************************************************************)
(* Storage: private helpers                                                *)
(***************************************************************************)
\* the mapping of __convert_schema
convert_mapping ==
    [string |-> "Text", integer |-> "Integer", number |-> "Float",
     boolean |-> "Boolean"]

\* the mapping of __restore_schema with FLOAT restored as integer
restore_mapping_float_as_integer ==
    [TEXT |-> "string", INTEGER |-> "integer", FLOAT |-> "integer",
     BOOLEAN |-> "boolean"]

\* the mapping of __restore_schema, keyed by the reflected type's class
restore_mapping ==
    [TEXT |-> "string", INTEGER |-> "integer", FLOAT |-> "number",
     BOOLEAN |-> "boolean"]

\* the loop of __convert_schema as it would be if it passed over a field
\* whose type the mapping does not hold
RECURSIVE ConvertFields_skips_unsupported(_, _, _)
ConvertFields_skips_unsupported(fields, i, columns) ==
    IF i > Len(fields) THEN [err |-> NoError, columns |-> columns]
    ELSE IF fields[i].type \notin DOMAIN convert_mapping
    THEN ConvertFields_skips_unsupported(fields, i + 1, columns)
    ELSE ConvertFields_skips_unsupported(fields, i + 1,
            Append(columns, [name |-> fields[i].name,
                             type |-> convert_mapping[fields[i].type]]))

\* the loop of __convert_schema from field i on, columns collected so far
RECURSIVE ConvertFields(_, _, _)
ConvertFields(fields, i, columns) ==
    IF i > Len(fields) THEN [err |-> NoError, columns |-> columns]
    ELSE IF fields[i].type \notin DOMAIN convert_mapping
    THEN [err |-> Raise("TypeError", fields[i].type), columns |-> <<>>]
    ELSE ConvertFields(fields, i + 1,
            Append(columns, [name |-> fields[i].name,
                             type |-> convert_mapping[fields[i].type]]))

\* __convert_schema as it would be if it put each column before the others
convert_schema_reversed(schema) ==
    LET conv == ConvertFields(schema, 1, <<>>)
    IN [conv EXCEPT !.columns =
            [i \in 1..Len(@) |-> @[Len(@) + 1 - i]]]

convert_schema(schema) == ConvertFields(schema, 1, <<>>)

\* the loop of __restore_schema from column i on
RECURSIVE RestoreColumns(_, _, _)
RestoreColumns(columns, i, fields) ==
    IF i > Len(columns) THEN [err |-> NoError, schema |-> fields]
    ELSE IF columns[i].type \notin DOMAIN restore_mapping
    THEN [err |-> Raise("TypeError", columns[i].type), schema |-> <<>>]
    ELSE RestoreColumns(columns, i + 1,
            Append(fields, [name |-> columns[i].name,
                            type |-> restore_mapping[columns[i].type]]))

restore_schema(columns) == RestoreColumns(columns, 1, <<>>)

(***************************************************************************)
(* Storage: the cached listing                                             *)
(***************************************************************************)
\* self.__tables = None
NoneTables == [set |-> FALSE, list |-> <<>>]

\* the names the loop of the tables property collects
Collect(st) ==
    LET kept == SelectSeq(table_names(st), LAMBDA s : StartsWith(s, Prefix))
    IN [i \in 1..Len(kept) |-> Replace1(kept[i], Prefix)]

\* the tables property as it would be if it listed the store at every read
tables_property_refetches(cache, st) == [set |-> TRUE, list |-> Collect(st)]

\* the tables property: __tables after the call (the value returned is its list)
tables_property(cache, st) ==
    IF cache.set THEN cache ELSE [set |-> TRUE, list |-> Collect(st)]

(***************************************************************************)
(* Storage: the public methods, as functions of the handle's cache and the *)
(* store.  Each gives the exception raised (or NoError), the store and the *)
(* cache after the call, the statements that change the store which it  *)
(* sent (sql), and the value returned.                                     *)
(***************************************************************************)
Outcome(err, st, cache) ==
    [err |-> err, store |-> st, tables |-> cache, sql |-> <<>>,
     bool |-> FALSE, list |-> <<>>, schema |-> <<>>, rows |-> <<>>]

\* Storage.tables read by a caller
tables_get(cache, st) ==
    LET c == tables_property(cache, st)
    IN [Outcome(NoError, st, c) EXCEPT !.list = c.list]

\* Storage.check
check(cache, st, table) ==
    LET c == tables_property(cache, st)
    IN [Outcome(NoError, st, c) EXCEPT !.bool = InList(table, c.list)]

\* create as it would be without the line that removes the tables cache
create_keeps_cache(cache, st, table, schema) ==
    LET chk == check(cache, st, table)
        conv == convert_schema(schema)
        made == DbCreate(st, Prefix \o table, conv.columns)
    IN IF chk.bool
       THEN Outcome(Raise("RuntimeError", "already existent"), st, chk.tables)
       ELSE IF conv.err # NoError THEN Outcome(conv.err, st, chk.tables)
       ELSE IF made.err # NoError
       THEN [Outcome(made.err, st, chk.tables) EXCEPT !.sql = <<"CREATE">>]
       ELSE [Outcome(NoError, made.store, chk.tables) EXCEPT
                !.sql = <<"CREATE">>]

\* create as it would be without the check for an existent table
create_unchecked(cache, st, table, schema) ==
    LET conv == convert_schema(schema)
        made == DbCreate(st, Prefix \o table, conv.columns)
    IN IF conv.err # NoError THEN Outcome(conv.err, st, cache)
       ELSE IF made.err # NoError
       THEN [Outcome(made.err, st, cache) EXCEPT !.sql = <<"CREATE">>]
       ELSE [Outcome(NoError, made.store, NoneTables) EXCEPT
                !.sql = <<"CREATE">>]

\* Storage.create
create(cache, st, table, schema) ==
    LET chk == check(cache, st, table)
        conv == convert_schema(schema)
        made == DbCreate(st, Prefix \o table, conv.columns)
    IN IF chk.bool
       THEN Outcome(Raise("RuntimeError", "already existent"), st, chk.tables)
       ELSE IF conv.err # NoError THEN Outcome(conv.err, st, chk.tables)
       ELSE IF made.err # NoError
       THEN [Outcome(made.err, st, chk.tables) EXCEPT !.sql = <<"CREATE">>]
       ELSE [Outcome(NoError, made.store, NoneTables) EXCEPT
                !.sql = <<"CREATE">>]

\* delete as it would be without the line that removes the tables cache
delete_keeps_cache(cache, st, table) ==
    LET chk == check(cache, st, table)
        dropped == DbDrop(st, Prefix \o table)
    IN IF ~chk.bool
       THEN Outcome(Raise("RuntimeError", "not existent"), st, chk.tables)
       ELSE IF dropped.err # NoError
       THEN [Outcome(dropped.err, st, chk.tables) EXCEPT !.sql = <<"DROP">>]
       ELSE [Outcome(NoError, dropped.store, chk.tables) EXCEPT
                !.sql = <<"DROP">>]

\* delete as it would be if it dropped every table the handle lists
delete_drops_listed(cache, st, table) ==
    LET chk == check(cache, st, table)
    IN IF ~chk.bool
       THEN Outcome(Raise("RuntimeError", "not existent"), st, chk.tables)
       ELSE [Outcome(NoError,
                     [s \in StoreNames |->
                        IF \E i \in 1..Len(chk.tables.list) :
                              Prefix \o chk.tables.list[i] = s
                        THEN NoTable ELSE st[s]],
                     NoneTables)
                EXCEPT !.sql = <<"DROP">>]

\* Storage.delete
delete(cache, st, table) ==
    LET chk == check(cache, st, table)
        dropped == DbDrop(st, Prefix \o table)
    IN IF ~chk.bool
       THEN Outcome(Raise("RuntimeError", "not existent"), st, chk.tables)
       ELSE IF dropped.err # NoError
       THEN [Outcome(dropped.err, st, chk.tables) EXCEPT !.sql = <<"DROP">>]
       ELSE [Outcome(NoError, dropped.store, NoneTables) EXCEPT
                !.sql = <<"DROP">>]

\* describe as it would be if it tested existence the way delete does
describe_via_check(cache, st, table) ==
    LET chk == check(cache, st, table)
        dbtable == Autoload(st, Prefix \o table)
        restored == restore_schema(dbtable.columns)
    IN IF ~chk.bool
       THEN Outcome(Raise("RuntimeError", "not existent"), st, chk.tables)
       ELSE IF dbtable.err # NoError THEN Outcome(dbtable.err, st, chk.tables)
       ELSE IF restored.err # NoError
       THEN Outcome(restored.err, st, chk.tables)
       ELSE [Outcome(NoError, st, chk.tables) EXCEPT
                !.schema = restored.schema]

\* Storage.describe
describe(cache, st, table) ==
    LET dbtable == Autoload(st, Prefix \o table)
        restored == restore_schema(dbtable.columns)
    IN IF dbtable.err # NoError THEN Outcome(dbtable.err, st, cache)
       ELSE IF restored.err # NoError THEN Outcome(restored.err, st, cache)
       ELSE [Outcome(NoError, st, cache) EXCEPT !.schema = restored.schema]

\* Storage.read
read(cache, st, table) ==
    LET dbtable == Autoload(st, Prefix \o table)
    IN IF dbtable.err # NoError THEN Outcome(dbtable.err, st, cache)
       ELSE [Outcome(NoError, st, cache) EXCEPT
                !.rows = DbSelect(st, Prefix \o table)]

(***************************************************************************)
(* Rows and casting (SchemaModel.convert_row of jsontableschema)           *)
(***************************************************************************)
RawValues == {"01", "x"}
DataTypes == {"string", "integer"}
DataFields == {f \in Fields : f.type \in DataTypes}
DataSchemas ==
    {<<f>> : f \in DataFields}
    \cup {<<f, g>> : <<f, g>> \in
                {p \in DataFields \X DataFields : p[1].name # p[2].name}}
DataNames == {<<"a">>}

\* positional rows of k raw values
RawRows(k) == [1..k -> RawValues]
\* the batches write is handed: one to MaxRows rows of k values
Batches(k) == UNION {[1..m -> RawRows(k)] : m \in 1..MaxRows}

\* the cast of one raw value to a field type: a string is kept as it is, an
\* integer is parsed ("01" is 1) and anything else is refused
CastValue(type, raw) ==
    CASE type = "string" -> [ok |-> TRUE, value |-> raw]
      [] type = "integer" /\ raw = "01" -> [ok |-> TRUE, value |-> "1"]
      [] OTHER -> [ok |-> FALSE, value |-> raw]

\* model.convert_row(*row): every value cast to its field's type, the first
\* value that cannot be cast raising
convert_row(fields, row) ==
    LET bad == {i \in 1..Len(fields) : ~CastValue(fields[i].type, row[i]).ok}
    IN IF bad # {}
       THEN [err |-> Raise("ValueError",
                           row[CHOOSE i \in bad : \A j \in bad : i <= j]),
             row |-> <<>>]
       ELSE [err |-> NoError,
             row |-> [i \in 1..Len(fields) |->
                        CastValue(fields[i].type, row[i]).value]]

\* rdata as it would be if every field took the row's first value
RowData_first_value(fields, row) ==
    [nm \in {fields[i].name : i \in 1..Len(fields)} |-> row[1]]

\* rdata of the loop of write: field name -> cast value (a later field of the
\* same name overwrites an earlier one)
RowData(fields, row) ==
    [nm \in {fields[i].name : i \in 1..Len(fields)} |->
        row[CHOOSE i \in 1..Len(fields) :
                /\ fields[i].name = nm
                /\ \A j \in 1..Len(fields) : fields[j].name = nm => j <= i]]

\* the loop of write from row k on, cdata collected so far
RECURSIVE ConvertData(_, _, _, _)
ConvertData(fields, data, k, cdata) ==
    IF k > Len(data) THEN [err |-> NoError, cdata |-> cdata]
    ELSE LET conv == convert_row(fields, data[k])
         IN IF conv.err # NoError THEN [err |-> conv.err, cdata |-> <<>>]
            ELSE ConvertData(fields, data, k + 1,
                    Append(cdata, RowData(fields, conv.row)))

\* the rows of data that precede the first row that cannot be cast
RECURSIVE GoodPrefix(_, _, _)
GoodPrefix(fields, data, k) ==
    IF k > Len(data) \/ convert_row(fields, data[k]).err # NoError
    THEN SubSeq(data, 1, k - 1)
    ELSE GoodPrefix(fields, data, k + 1)

\* write as it would be if it inserted each row as soon as it is cast
write_row_by_row(cache, st, table, data) ==
    LET desc == describe(cache, st, table)
        conv == ConvertData(desc.schema, data, 1, <<>>)
        good == ConvertData(desc.schema,
                            GoodPrefix(desc.schema, data, 1), 1, <<>>)
    IN IF desc.err # NoError THEN Outcome(desc.err, st, cache)
       ELSE [Outcome(conv.err,
                     DbInsert(st, Prefix \o table, good.cdata), cache)
                EXCEPT !.sql = <<"INSERT">>]

\* Storage.write
write(cache, st, table, data) ==
    LET desc == describe(cache, st, table)
        conv == ConvertData(desc.schema, data, 1, <<>>)
        dbtable == Autoload(st, Prefix \o table)
    IN IF desc.err # NoError THEN Outcome(desc.err, st, cache)
       ELSE IF conv.err # NoError THEN Outcome(conv.err, st, cache)
       ELSE IF dbtable.err # NoError THEN Outcome(dbtable.err, st, cache)
       ELSE [Outcome(NoError, DbInsert(st, Prefix \o table, conv.cdata), cache)
                EXCEPT !.sql = <<"INSERT">>]

(***************************************************************************)
(* History: what the callers asked for, kept to state the properties       *)
(***************************************************************************)
NoExpect == [made |-> FALSE, schema |-> <<>>, rows |-> <<>>]

\* the rows of a batch cast against the schema the table was created with
ExpectedRows(schema, data) ==
    [k \in 1..Len(data) |->
        [i \in 1..Len(schema) |-> CastValue(schema[i].type, data[k][i]).value]]

(***************************************************************************)
(* The calls                                                               *)
(***************************************************************************)
\* what the caller of a method sees: the exception or the value returned
\* (and the statements the call sent to the store)
Returned(out) ==
    [err |-> out.err, sql |-> out.sql, bool |-> out.bool, list |-> out.list,
     schema |-> out.schema, rows |-> out.rows]

Call(op, h, table, schema, data, out) ==
    [op |-> op, h |-> h, table |-> table, schema |-> schema, data |-> data,
     pre |-> [store |-> store, tables |-> tables[h]], out |-> Returned(out)]

Apply(h, out) ==
    /\ store' = out.store
    /\ tables' = [tables EXCEPT ![h] = out.tables]

\* Storage(engine, prefix=Prefix): h is a newly constructed handle
NewHandle(h) ==
    /\ tables' = [tables EXCEPT ![h] = NoneTables]
    /\ last' = Call("init", h, <<>>, <<>>, <<>>,
                     Outcome(NoError, store, NoneTables))
    /\ UNCHANGED <<store, expect>>

Tables(h) ==
    LET out == tables_get(tables[h], store)
    IN /\ Apply(h, out)
       /\ last' = Call("tables", h, <<>>, <<>>, <<>>, out)
       /\ UNCHANGED expect

Check(h, table) ==
    LET out == check(tables[h], store, table)
    IN /\ Apply(h, out)
       /\ last' = Call("check", h, table, <<>>, <<>>, out)
       /\ UNCHANGED expect

Create(h, table, schema) ==
    LET out == create(tables[h], store, table, schema)
    IN /\ Apply(h, out)
       /\ last' = Call("create", h, table, schema, <<>>, out)
       /\ expect' = IF out.err = NoError
                     THEN [expect EXCEPT ![table] =
                             [made |-> TRUE, schema |-> schema, rows |-> <<>>]]
                     ELSE expect

Delete(h, table) ==
    LET out == delete(tables[h], store, table)
    IN /\ Apply(h, out)
       /\ last' = Call("delete", h, table, <<>>, <<>>, out)
       /\ expect' = IF out.err = NoError
                     THEN [expect EXCEPT ![table] = NoExpect]
                     ELSE expect

Describe(h, table) ==
    LET out == describe(tables[h], store, table)
    IN /\ Apply(h, out)
       /\ last' = Call("describe", h, table, <<>>, <<>>, out)
       /\ UNCHANGED expect

Read(h, table) ==
    LET out == read(tables[h], store, table)
    IN /\ Apply(h, out)
       /\ last' = Call("read", h, table, <<>>, <<>>, out)
       /\ UNCHANGED expect

\* the number of values in the rows handed to write for a table
Arity(table) ==
    IF store[Prefix \o table].exists
    THEN Len(store[Prefix \o table].columns) ELSE 1

Write(h, table, data) ==
    LET out == write(tables[h], store, table, data)
    IN /\ Len(store[Prefix \o table].rows) + Len(data) <= MaxRows
       /\ Apply(h, out)
       /\ last' = Call("write", h, table, <<>>, data, out)
       /\ expect' = IF out.err = NoError
                     THEN [expect EXCEPT ![table].rows =
                             @ \o ExpectedRows(expect[table].schema, data)]
                     ELSE expect

\* a row given as a mapping: its (field name, raw value) items in the order
\* the mapping iterates; every field of the table is given once
MappingRows(fields) ==
    {r \in [1..Len(fields) -> FieldNames \X RawValues] :
        /\ \A i, j \in 1..Len(fields) : r[i][1] = r[j][1] => i = j
        /\ \A i \in 1..Len(fields) :
              \E j \in 1..Len(fields) : fields[j].name = r[i][1]}
\* batches of one mapping row for a table of the store
MappingBatches(table) ==
    IF store[Prefix \o table].exists
    THEN {<<r>> : r \in MappingRows(store[Prefix \o table].columns)}
    ELSE {}

\* the arguments of convert_row(*row) when row is a mapping: its keys
StarArgs(row) == [i \in 1..Len(row) |-> row[i][1]]

\* Storage.write handed rows that are mappings keyed by field name
WriteMapping(h, table, data) ==
    LET args == [k \in 1..Len(data) |-> StarArgs(data[k])]
        out == write(tables[h], store, table, args)
    IN /\ Len(store[Prefix \o table].rows) + Len(data) <= MaxRows
       /\ Apply(h, out)
       /\ last' = Call("write_mapping", h, table, <<>>, data, out)
       /\ expect' = IF out.err = NoError
                     THEN [expect EXCEPT ![table].rows =
                             @ \o ExpectedRows(expect[table].schema, args)]
                     ELSE expect

(***************************************************************************)
(* Writing with update keys and an identity column.  storage.py has        *)
(* neither: this part follows the design of the upsert engine (the         *)
(* algorithm of six steps) and the calls of test_storage_update.           *)
(***************************************************************************)
\* the identity column of a handle constructed with autoincrement='__id'
IdentityColumn == "__id"
\* whether handle h is constructed with an identity column
autoincrement == [h \in Handles |-> h = "A"]
\* identity values as the store holds them
IdStr == <<"1", "2", "3", "4", "5", "6", "7", "8", "9">>
IdNum(s) == CHOOSE n \in 1..Len(IdStr) : IdStr[n] = s
NoIdentity == "None"

\* the update keys callers pass
KeySets == {<<"id">>, <<"id", "x">>}
\* the schemas of the tables written with update keys
KeyedSchemas == {s \in DataSchemas : Len(s) = 2 /\ s[1].name = "x"}
\* the rows written with update keys, as (x, id)
KeyedRows == {<<"01", "01">>, <<"x", "01">>, <<"01", "x">>}
\* the batches written with update keys: one or two rows
KeyedBatches == {<<r>> : r \in KeyedRows} \cup (KeyedRows \X KeyedRows)

ColumnIndex(cols, nm) == CHOOSE i \in 1..Len(cols) : cols[i].name = nm

\* whether a table of the store has the identity column
HasIdentity(st, name) ==
    /\ st[name].exists
    /\ \E i \in 1..Len(st[name].columns) :
          st[name].columns[i].name = IdentityColumn

\* a table created by a handle with an identity column: the column comes first
AddIdentity(st, name) ==
    [st EXCEPT ![name].columns =
        <<[name |-> IdentityColumn, type |-> "INTEGER"]>> \o @]

\* step 1: the largest identity of the table, 0 for a table without rows
MaxIdentity_smallest(st, name) ==
    LET idx == ColumnIndex(st[name].columns, IdentityColumn)
        ids == {IdNum(st[name].rows[r][idx]) : r \in 1..Len(st[name].rows)}
    IN IF ids = {} THEN 0 ELSE CHOOSE m \in ids : \A n \in ids : m <= n
MaxIdentity(st, name) ==
    LET idx == ColumnIndex(st[name].columns, IdentityColumn)
        ids == {IdNum(st[name].rows[r][idx]) : r \in 1..Len(st[name].rows)}
    IN IF ids = {} THEN 0 ELSE CHOOSE m \in ids : \A n \in ids : n <= m

\* step 3: the rows of the table equal to the record on every key column
Matching_first_key(st, name, keys, rdata) ==
    {r \in 1..Len(st[name].rows) :
        st[name].rows[r][ColumnIndex(st[name].columns, keys[1])]
            = rdata[keys[1]]}
Matching_none(st, name, keys, rdata) == {}
Matching(st, name, keys, rdata) ==
    {r \in 1..Len(st[name].rows) :
        \A j \in 1..Len(keys) :
            st[name].rows[r][ColumnIndex(st[name].columns, keys[j])]
                = rdata[keys[j]]}

\* step 3: the fields of the record that are no key, written to the rows
DbUpdate(st, name, matched, keys, rdata) ==
    LET cols == st[name].columns
    IN [st EXCEPT ![name].rows =
          [r \in 1..Len(@) |->
              IF r \notin matched THEN @[r]
              ELSE [i \in 1..Len(cols) |->
                      IF cols[i].name \in DOMAIN rdata
                         /\ ~InList(cols[i].name, keys)
                      THEN rdata[cols[i].name] ELSE @[r][i]]]]

\* the identity reported for a row: none without an identity column
Identity_always(auto, value) == value
Identity(auto, value) == IF auto THEN value ELSE NoIdentity

\* steps 2 to 5 from record k on: the store, the counter and the outcomes
RECURSIVE UpsertRows(_, _, _, _, _, _, _, _)
UpsertRows(st, name, cdata, keys, auto, counter, k, outcomes) ==
    IF k > Len(cdata)
    THEN [store |-> st, outcomes |-> outcomes]
    ELSE LET rdata == cdata[k]
             matched == Matching(st, name, keys, rdata)
             first == CHOOSE r \in matched : \A q \in matched : r <= q
             kept == IF auto
                     THEN st[name].rows[first][
                              ColumnIndex(st[name].columns, IdentityColumn)]
                     ELSE NoIdentity
             next == counter + 1
             given == IF auto
                      THEN (IdentityColumn :> IdStr[next]) @@ rdata
                      ELSE rdata
         IN IF matched # {}
            THEN UpsertRows(DbUpdate(st, name, matched, keys, rdata), name,
                            cdata, keys, auto, counter, k + 1,
                            Append(outcomes,
                                   [updated |-> TRUE,
                                    updated_id |-> Identity(auto, kept)]))
            ELSE UpsertRows(DbInsert(st, name, <<given>>), name,
                            cdata, keys, auto, next, k + 1,
                            Append(outcomes,
                                   [updated |-> FALSE,
                                    updated_id |->
                                        Identity(auto, IdStr[next])]))

\* write(table, data, update_keys=keys, as_generator=True), the outcomes read
\* to the end; a row that cannot be cast fails the batch and writes nothing
upsert(cache, st, auto, table, data, keys) ==
    LET name == Prefix \o table
        desc == describe(cache, st, table)
        fields == SelectSeq(desc.schema, LAMBDA f : f.name # IdentityColumn)
        conv == ConvertData(fields, data, 1, <<>>)
        seed == IF auto THEN MaxIdentity(st, name) ELSE 0
        done == UpsertRows(st, name, conv.cdata, keys, auto, seed, 1, <<>>)
    IN IF desc.err # NoError THEN Outcome(desc.err, st, cache)
       ELSE IF conv.err # NoError THEN Outcome(conv.err, st, cache)
       ELSE [Outcome(NoError, done.store, cache) EXCEPT
                !.list = done.outcomes,
                !.sql = [i \in 1..Len(done.outcomes) |->
                           IF done.outcomes[i].updated
                           THEN "UPDATE" ELSE "INSERT"]]

\* create on a handle that may have an identity column
CreateKeyed(h, table, schema) ==
    LET made == create(tables[h], store, table, schema)
        out == IF made.err = NoError /\ autoincrement[h]
               THEN [made EXCEPT !.store = AddIdentity(@, Prefix \o table)]
               ELSE made
    IN /\ Apply(h, out)
       /\ last' = Call("create", h, table, schema, <<>>, out)
       /\ expect' = IF out.err = NoError
                     THEN [expect EXCEPT ![table] =
                             [made |-> TRUE, schema |-> schema, rows |-> <<>>]]
                     ELSE expect

\* write with update keys, on a table of the handle's own configuration
WriteKeys(h, table, data, keys) ==
    LET out == upsert(tables[h], store, autoincrement[h], table, data, keys)
    IN /\ store[Prefix \o table].exists
          => HasIdentity(store, Prefix \o table) = autoincrement[h]
       /\ Len(out.store[Prefix \o table].rows) <= MaxKeyedRows
       /\ Apply(h, out)
       /\ last' = [Call("write_keys", h, table, <<>>, data, out)
                       EXCEPT !.schema = keys]
       /\ UNCHANGED expect

(***************************************************************************)
(* Specifications                                                          *)
(***************************************************************************)
\* a store in which some other party may have left tables without the prefix
Init ==
    /\ \E present \in SUBSET ForeignNames :
          store = [s \in StoreNames |->
                     IF s \in present
                     THEN [exists |-> TRUE,
                           columns |-> <<[name |-> "id", type |-> "INTEGER"]>>,
                           rows |-> << <<"1">> >>]
                     ELSE NoTable]
    /\ tables = [h \in Handles |-> NoneTables]
    /\ expect = [n \in Names |-> NoExpect]
    /\ last = [op |-> "init", h |-> "A", table |-> <<>>, schema |-> <<>>,
               data |-> <<>>,
               pre |-> [store |-> store, tables |-> NoneTables],
               out |-> Returned(Outcome(NoError, store, NoneTables))]

\* one handle at a time on the store, every schema, no rows written
Next ==
    \E h \in {"A"} :
        \/ NewHandle(h)
        \/ Tables(h)
        \/ \E n \in Names :
              \/ Check(h, n)
              \/ Delete(h, n)
              \/ Describe(h, n)
              \/ Read(h, n)
              \/ \E s \in Schemas : Create(h, n, s)

Spec == Init /\ [][Next]_vars

\* one handle and one table name, with rows written and read
NextData ==
    \E h \in {"A"} :
        \/ NewHandle(h)
        \/ Tables(h)
        \/ \E n \in DataNames :
              \/ Check(h, n)
              \/ Delete(h, n)
              \/ Describe(h, n)
              \/ Read(h, n)
              \/ \E s \in DataSchemas : Create(h, n, s)
              \/ \E d \in Batches(Arity(n)) : Write(h, n, d)

SpecData == Init /\ [][NextData]_vars

\* one handle and one table name, with rows written as mappings
NextMapping ==
    \E h \in {"A"} : \E n \in DataNames :
        \/ Read(h, n)
        \/ \E s \in DataSchemas : Create(h, n, s)
        \/ \E d \in MappingBatches(n) : WriteMapping(h, n, d)

SpecMapping == Init /\ [][NextMapping]_vars

\* a handle with an identity column and one without, on one table name,
\* writing with update keys
NextKeyed ==
    \E h \in Handles : \E n \in DataNames :
        \/ \E s \in KeyedSchemas : CreateKeyed(h, n, s)
        \/ \E d \in KeyedBatches : \E keys \in KeySets :
              WriteKeys(h, n, d, keys)

SpecKeyed == Init /\ [][NextKeyed]_vars

\* two handles with the same prefix on one store
NextTwo ==
    \E h \in Handles :
        \/ Tables(h)
        \/ \E n \in DataNames :
              \/ Check(h, n)
              \/ Delete(h, n)
              \/ Describe(h, n)
              \/ \E s \in DataSchemas : Create(h, n, s)

SpecTwo == Init /\ [][NextTwo]_vars

(***************************************************************************)
(* Properties                                                              *)
(***************************************************************************)
Succeeded == last.out.err = NoError
\* whether the store held the table of the call before the call
HeldBefore == last.pre.store[Prefix \o last.table].exists
\* the elements of a list
Elements(l) == {l[i] : i \in 1..Len(l)}
\* every name a listing could hold: the tails of the store's table names
Candidates ==
    Names \cup {SubSeq(s, k, Len(s)) : <<s, k>> \in StoreNames \X (1..4)}
\* the logical names n whose table Prefix + n the store holds
Present(st) ==
    {n \in Candidates : Prefix \o n \in StoreNames /\ st[Prefix \o n].exists}

\* C1: a create(n, schema) that returns without error is followed by
\* check(n) = true and a delete(n) that returns without error by
\* check(n) = false, whether or not the listing was cached before the call.
C1_CheckAfterCreateDelete ==
    /\ (last.op = "create" /\ Succeeded)
          => check(tables[last.h], store, last.table).bool
    /\ (last.op = "delete" /\ Succeeded)
          => ~check(tables[last.h], store, last.table).bool

C1_Witness ==
    /\ last.op = "delete" /\ Succeeded
    /\ last.pre.tables.set
    /\ ~check(tables[last.h], store, last.table).bool

\* C2 as claimed: create(n, schema) while the store holds Prefix + n raises
\* the already-existent RuntimeError, sends no CREATE and leaves the store
\* and the handle's cached listing (__tables) as they were.
C2_Original ==
    (last.op = "create" /\ HeldBefore)
        => /\ last.out.err = Raise("RuntimeError", "already existent")
           /\ last.out.sql = <<>>
           /\ store = last.pre.store
           /\ tables[last.h] = last.pre.tables

\* C2 as amended: create(n, schema) while the store holds Prefix + n raises
\* the already-existent RuntimeError, sends no CREATE and leaves the store
\* as it was; a cached listing is left as it was, and an unset cache is
\* filled with the listing of the unchanged store.
C2_CreateExistent ==
    (last.op = "create" /\ HeldBefore)
        => /\ last.out.err = Raise("RuntimeError", "already existent")
           /\ last.out.sql = <<>>
           /\ store = last.pre.store
           /\ tables[last.h].set
           /\ last.pre.tables.set => tables[last.h] = last.pre.tables
           /\ ~last.pre.tables.set
                 => Elements(tables[last.h].list) = Present(store)

C2_Witness ==
    /\ last.op = "create" /\ HeldBefore
    /\ ~last.pre.tables.set
    /\ last.out.err = Raise("RuntimeError", "already existent")
    /\ tables[last.h].set

\* C3: delete(n) while the store holds no table Prefix + n raises the
\* not-existent RuntimeError, sends no DROP and leaves the store as it was;
\* and a delete(n) right after a delete(n) that returned always raises it.
C3_DeleteAbsent ==
    /\ (last.op = "delete" /\ ~HeldBefore)
          => /\ last.out.err = Raise("RuntimeError", "not existent")
             /\ last.out.sql = <<>>
             /\ store = last.pre.store
    /\ (last.op = "delete" /\ Succeeded)
          => LET again == delete(tables[last.h], store, last.table)
             IN /\ again.err = Raise("RuntimeError", "not existent")
                /\ again.sql = <<>>
                /\ again.store = store

C3_Witness ==
    /\ last.op = "delete" /\ ~HeldBefore
    /\ last.out.err = Raise("RuntimeError", "not existent")
    /\ \E n \in Names : n # last.table /\ store[Prefix \o n].exists

\* the error reflection raises for a table the store does not hold
NoSuchTable == Raise("NoSuchTableError", "reflect")

C5_DescribeCreated ==
    (last.op = "describe" /\ expect[last.table].made)
        => /\ Succeeded
           /\ last.out.schema = expect[last.table].schema
           /\ \A i \in 1..Len(last.out.schema) :
                 last.out.schema[i].type \in SupportedTypes

C5_Witness ==
    /\ last.op = "describe" /\ expect[last.table].made /\ Succeeded
    /\ Len(last.out.schema) = 2
    /\ last.out.schema[1] = [name |-> "x", type |-> "string"]
    /\ last.out.schema[2] = [name |-> "id", type |-> "number"]

\* the types of the fields of a schema that the mapping does not hold
Unsupported(schema) ==
    {schema[i].type : i \in 1..Len(schema)} \ SupportedTypes
\* the first field of a schema whose type the mapping does not hold
FirstUnsupported(schema) ==
    CHOOSE i \in 1..Len(schema) :
        /\ schema[i].type \notin SupportedTypes
        /\ \A j \in 1..(i - 1) : schema[j].type \in SupportedTypes

\* C6: create(n, schema) for an absent table, with a field of schema whose
\* type is outside the mapping, raises the TypeError naming the type of the
\* first such field, sends no CREATE, leaves the store as it was, and
\* check(n) is false afterwards.
C6_UnsupportedType ==
    (last.op = "create" /\ ~HeldBefore /\ Unsupported(last.schema) # {})
        => /\ last.out.err =
                 Raise("TypeError",
                       last.schema[FirstUnsupported(last.schema)].type)
           /\ last.out.sql = <<>>
           /\ store = last.pre.store
           /\ ~check(tables[last.h], store, last.table).bool

C6_Witness ==
    /\ last.op = "create" /\ ~HeldBefore
    /\ Len(last.schema) = 2
    /\ last.schema[1].type = "integer" /\ last.schema[2].type = "date"
    /\ last.out.err = Raise("TypeError", "date")
    /\ ~store[Prefix \o last.table].exists

\* whether a batch holds a value that cannot be cast to its column's type
HasBadRow(schema, data) ==
    \E k \in 1..Len(data) : \E i \in 1..Len(schema) :
        ~CastValue(schema[i].type, data[k][i]).ok

\* C7: a write(n, rows) with a row holding a value that cannot be cast to
\* its field's type raises, sends no INSERT and leaves the store, so the
\* table's rows, as it was, wherever in the batch the row sits.
C7_BadRowWritesNothing ==
    (last.op = "write" /\ HeldBefore /\ expect[last.table].made
        /\ HasBadRow(expect[last.table].schema, last.data))
        => /\ last.out.err.kind = "ValueError"
           /\ last.out.sql = <<>>
           /\ store = last.pre.store

C7_Witness ==
    /\ last.op = "write" /\ HeldBefore /\ expect[last.table].made
    /\ Len(last.data) = 3
    /\ ~HasBadRow(expect[last.table].schema, SubSeq(last.data, 1, 2))
    /\ HasBadRow(expect[last.table].schema, last.data)
    /\ last.out.err.kind = "ValueError"
    /\ store[Prefix \o last.table].rows = <<>>

C9_MappingBijection ==
    /\ \A t \in SupportedTypes :
          /\ t \in DOMAIN convert_mapping
          /\ CompileType(convert_mapping[t]) \in DOMAIN restore_mapping
          /\ restore_mapping[CompileType(convert_mapping[t])] = t
    /\ \A t, u \in SupportedTypes :
          CompileType(convert_mapping[t]) = CompileType(convert_mapping[u])
             => t = u
    /\ \A n \in Names :
          expect[n].made =>
             \A i \in 1..Len(expect[n].schema) :
                restore_mapping[store[Prefix \o n].columns[i].type]
                   = expect[n].schema[i].type

C9_Witness ==
    /\ \A t \in {"string", "number", "boolean"} :
          \E n \in Names : \E i \in 1..Len(store[Prefix \o n].columns) :
             /\ expect[n].made
             /\ store[Prefix \o n].columns[i].type
                   = CompileType(convert_mapping[t])
             /\ expect[n].schema[i].type = t
    /\ last.op = "describe" /\ Succeeded

KeyedWritten == last.op = "write_keys" /\ Succeeded
\* the table of the call, before and after it
RowsBefore == last.pre.store[Prefix \o last.table].rows
RowsAfter == store[Prefix \o last.table].rows
\* the fields the caller's rows are cast to: the table's without the identity
KeyedFields ==
    SelectSeq(describe(last.pre.tables, last.pre.store, last.table).schema,
              LAMBDA f : f.name # IdentityColumn)
\* the cast record of row k of the batch, and a record's key
CastRecord(k) == RowData(KeyedFields, convert_row(KeyedFields, last.data[k]).row)
KeyOf(rec) == [j \in 1..Len(last.schema) |-> rec[last.schema[j]]]
\* the record of a stored row, by column name
StoredRecord(st, row) ==
    LET cols == st[Prefix \o last.table].columns
    IN [nm \in {cols[i].name : i \in 1..Len(cols)} |->
            row[ColumnIndex(cols, nm)]]
\* the keys of the rows of a table
KeysOf(st) ==
    {KeyOf(StoredRecord(st, st[Prefix \o last.table].rows[r])) :
        r \in 1..Len(st[Prefix \o last.table].rows)}
\* the keys in the table when row k is looked up: those before the call and
\* those of the rows of the batch before k
KeysAt(k) == KeysOf(last.pre.store) \cup {KeyOf(CastRecord(j)) : j \in 1..(k - 1)}
\* the rows of the batch reported as inserted, up to row k
InsertedUpTo(k) == {j \in 1..k : ~last.out.list[j].updated}
\* whether no two rows of a table have the same key
UniqueKeys(st) == Cardinality(KeysOf(st)) = Len(st[Prefix \o last.table].rows)
\* whether row k is the last row of the batch with its key
LastOfKey(k) ==
    \A j \in (k + 1)..Len(last.data) : KeyOf(CastRecord(j)) # KeyOf(CastRecord(k))

\* C11: a write with update keys returns one outcome per row of the batch, in
\* the order of the batch.  Row k is reported updated, by an UPDATE that adds
\* no row, exactly when its cast key is in the table when it is looked up;
\* otherwise it is reported not updated and one row is inserted.  The rows
\* with the key of a batch row end with the other fields of the last batch row
\* of that key, rows of other keys stay, and a table without two rows of the
\* same key has none after the write.
C11_KeyedWrite ==
    KeyedWritten
        => /\ Len(last.out.list) = Len(last.data)
           /\ \A k \in 1..Len(last.data) :
                 /\ last.out.list[k].updated <=> KeyOf(CastRecord(k)) \in KeysAt(k)
                 /\ last.out.sql[k] = IF KeyOf(CastRecord(k)) \in KeysAt(k)
                                      THEN "UPDATE" ELSE "INSERT"
           /\ Len(RowsAfter) =
                 Len(RowsBefore) + Cardinality(InsertedUpTo(Len(last.data)))
           /\ \A r \in 1..Len(RowsAfter) :
                 LET rec == StoredRecord(store, RowsAfter[r])
                 IN /\ \A k \in 1..Len(last.data) :
                          (KeyOf(rec) = KeyOf(CastRecord(k)) /\ LastOfKey(k))
                              => \A f \in DOMAIN CastRecord(k) :
                                     rec[f] = CastRecord(k)[f]
                    /\ (r <= Len(RowsBefore)
                        /\ \A k \in 1..Len(last.data) :
                              KeyOf(rec) # KeyOf(CastRecord(k)))
                           => RowsAfter[r] = RowsBefore[r]
           /\ UniqueKeys(last.pre.store) => UniqueKeys(store)

C11_Witness ==
    /\ KeyedWritten
    /\ Len(RowsBefore) = 1 /\ Len(RowsAfter) = 2
    /\ last.schema = <<"id">>
    /\ last.data = << <<"01", "01">>, <<"x", "01">> >>
    /\ <<last.out.list[1].updated, last.out.list[2].updated>> = <<FALSE, TRUE>>
    /\ RowsAfter[2][ColumnIndex(store[Prefix \o last.table].columns, "x")] = "x"

\* the identity of a stored row
IdentityOf(st, row) ==
    IdNum(row[ColumnIndex(st[Prefix \o last.table].columns, IdentityColumn)])
\* the first row of the table with the key of row k of the batch
FirstOfKey(k) ==
    CHOOSE r \in 1..Len(RowsAfter) :
        /\ KeyOf(StoredRecord(store, RowsAfter[r])) = KeyOf(CastRecord(k))
        /\ \A q \in 1..(r - 1) :
              KeyOf(StoredRecord(store, RowsAfter[q])) # KeyOf(CastRecord(k))

\* C12: on a handle with an identity column, after a write with update keys
\* every row the table had keeps its identity, every inserted row has an
\* identity greater than that of every row before it in the table, so the
\* identities are distinct and ascend in insertion order, an inserted row's
\* outcome reports the identity it was given and an updated row's outcome the
\* identity of the row it matched.
C12_Identity ==
    (KeyedWritten /\ autoincrement[last.h])
        => /\ \A r \in 1..Len(RowsBefore) :
                 IdentityOf(store, RowsAfter[r])
                     = IdentityOf(last.pre.store, RowsBefore[r])
           /\ \A r \in (Len(RowsBefore) + 1)..Len(RowsAfter) :
                 \A q \in 1..(r - 1) :
                     IdentityOf(store, RowsAfter[r])
                         > IdentityOf(store, RowsAfter[q])
           /\ \A r, q \in 1..Len(RowsAfter) :
                 r # q => IdentityOf(store, RowsAfter[r])
                              # IdentityOf(store, RowsAfter[q])
           /\ \A k \in 1..Len(last.data) :
                 /\ last.out.list[k].updated_id # NoIdentity
                 /\ IdNum(last.out.list[k].updated_id) =
                       IF last.out.list[k].updated
                       THEN IdentityOf(store, RowsAfter[FirstOfKey(k)])
                       ELSE IdentityOf(store,
                               RowsAfter[Len(RowsBefore)
                                         + Cardinality(InsertedUpTo(k))])

C12_Witness ==
    /\ KeyedWritten /\ autoincrement[last.h]
    /\ Len(RowsBefore) = 2
    /\ last.out.list = <<[updated |-> TRUE, updated_id |-> "1"],
                         [updated |-> FALSE, updated_id |-> "3"]>>
    /\ IdentityOf(store, RowsAfter[3]) = 3

\* C13: on a handle without an identity column every outcome of a write with
\* update keys reports the identity None, of an inserted row and of an updated
\* row, the table gets no identity column, and the outcome's flag is still
\* updated exactly when the row's key was in the table at its lookup.
C13_NoIdentity ==
    (KeyedWritten /\ ~autoincrement[last.h])
        => /\ ~HasIdentity(store, Prefix \o last.table)
           /\ \A k \in 1..Len(last.out.list) :
                 /\ last.out.list[k].updated_id = NoIdentity
                 /\ last.out.list[k].updated = (KeyOf(CastRecord(k)) \in KeysAt(k))

C13_Witness ==
    /\ KeyedWritten /\ ~autoincrement[last.h]
    /\ Len(RowsBefore) = 1
    /\ last.out.list = <<[updated |-> TRUE, updated_id |-> NoIdentity],
                         [updated |-> FALSE, updated_id |-> NoIdentity]>>

\* C14: after a write with update keys, the same write again reports every
\* row updated, with the identities the first write reported, and leaves the
\* table as the first write left it.
C14_Idempotent ==
    KeyedWritten
        => LET again == upsert(tables[last.h], store, autoincrement[last.h],
                               last.table, last.data, last.schema)
           IN /\ again.err = NoError
              /\ Len(again.list) = Len(last.out.list)
              /\ \A k \in 1..Len(again.list) :
                    /\ again.list[k].updated
                    /\ again.list[k].updated_id = last.out.list[k].updated_id
              /\ again.store = store

C14_Witness ==
    /\ KeyedWritten /\ autoincrement[last.h]
    /\ Len(RowsBefore) = 1 /\ Len(RowsAfter) = 3
    /\ last.out.list = <<[updated |-> FALSE, updated_id |-> "2"],
                         [updated |-> FALSE, updated_id |-> "3"]>>

\* the positional row of a mapping row: its values in the order of the fields
Positional(schema, row) ==
    [i \in 1..Len(schema) |->
        (CHOOSE item \in Elements(row) : item[1] = schema[i].name)[2]]

\* C15: write takes a row as a sequence in field order or as a mapping keyed
\* by field name, and both forms of the same values store the same record:
\* a write of mapping rows raises what the write of their positional rows
\* raises and leaves the table that write leaves.
C15_MappingAsPositional ==
    (last.op = "write_mapping" /\ expect[last.table].made)
        => LET rows == [k \in 1..Len(last.data) |->
                          Positional(expect[last.table].schema, last.data[k])]
               want == write(last.pre.tables, last.pre.store, last.table, rows)
           IN /\ last.out.err = want.err
              /\ store = want.store

\* whether a cache agrees with the store: unset, or the listing of the store
Coherent(cache, st) ==
    cache.set => /\ Elements(cache.list) = Present(st)
                 /\ Len(cache.list) = Cardinality(Present(st))

\* C16: on one handle with no other writer to the store, the cached listing
\* is unset or the listing of the store's tables after every call; a create
\* or delete that returns leaves it unset, and one that raises leaves it
\* unset or in agreement with the store.
C16_CacheCoherent ==
    /\ \A h \in Handles : Coherent(tables[h], store)
    /\ (last.op \in {"create", "delete"} /\ Succeeded) => ~tables[last.h].set
    /\ (last.op \in {"create", "delete"} /\ ~Succeeded)
          => /\ tables[last.h].set
             /\ Coherent(tables[last.h], store)
             /\ store = last.pre.store

C16_Witness ==
    /\ last.op = "create" /\ ~Succeeded
    /\ tables[last.h] = [set |-> TRUE, list |-> << <<"a">> >>]
    /\ \E s \in ForeignNames : store[s].exists
    /\ store[Prefix \o last.table].rows # <<>>

\* whether the cache of the call listed the table before the call
ListedBefore == last.pre.tables.set /\ InList(last.table, last.pre.tables.list)
NotListedBefore ==
    last.pre.tables.set /\ ~InList(last.table, last.pre.tables.list)

\* a create on a handle whose cache does not list a table the store holds
StaleCreateSendsCreate ==
    (last.op = "create" /\ NotListedBefore /\ HeldBefore)
        => /\ last.out.sql = <<"CREATE">>
           /\ last.out.err = Raise("StoreError", "table exists")
           /\ store = last.pre.store
           /\ tables[last.h] = last.pre.tables

\* a delete on a handle whose cache lists a table the store does not hold
StaleDeleteSendsDrop ==
    (last.op = "delete" /\ ListedBefore /\ ~HeldBefore)
        => /\ last.out.sql = <<"DROP">>
           /\ last.out.err = Raise("StoreError", "no such table")
           /\ store = last.pre.store
           /\ tables[last.h] = last.pre.tables

\* a set cache changes only by its own handle's create or delete returning
SetCacheKept ==
    \A h \in Handles :
        (tables[h].set /\ tables'[h] # tables[h])
            => /\ last'.h = h
               /\ last'.op \in {"create", "delete"}
               /\ last'.out.err = NoError
               /\ ~tables'[h].set

\* C17: with two handles on one store, a set cache changes only when its own
\* handle completes a create or delete, whatever the other handle does to the
\* store; a create(n, schema) on a handle whose cache does not list n while
\* the store holds Prefix + n sends a CREATE and raises the store's error, not
\* the already-existent RuntimeError, and a delete(n) on a handle whose cache
\* lists n while the store does not hold it sends a DROP.
C17_StaleAcrossHandles ==
    /\ [](StaleCreateSendsCreate /\ StaleDeleteSendsDrop)
    /\ [][SetCacheKept]_vars

C17_Witness ==
    /\ last.op = "create" /\ last.h = "A"
    /\ NotListedBefore /\ HeldBefore
    /\ last.out.sql = <<"CREATE">>
    /\ ~check(tables["A"], store, last.table).bool
    /\ store[Prefix \o last.table].exists

\* the values a cache can have
CacheValues ==
    {NoneTables} \cup
    {[set |-> TRUE, list |-> l] :
        l \in {<<>>, << <<"a">> >>, << <<"p", "a">> >>,
               << <<"a">>, <<"p", "a">> >>}}

\* the method of the call made last, as a function of cache and store
LastMethod(cache, st) ==
    CASE last.op = "describe" -> describe(cache, st, last.table)
      [] last.op = "read" -> read(cache, st, last.table)
      [] last.op = "write" -> write(cache, st, last.table, last.data)

\* C18: describe(n), read(n) and write(n, data) return or raise the same, and
\* leave the same store, whatever the cache holds (unset, the listing of the
\* store, or any other listing), and leave the cache as it was.
C18_CacheNotConsulted ==
    last.op \in {"describe", "read", "write"}
        => /\ tables[last.h] = last.pre.tables
           /\ \A c \in CacheValues :
                 LET out == LastMethod(c, last.pre.store)
                 IN /\ Returned(out) = last.out
                    /\ out.store = store
                    /\ out.tables = c

C18_Witness ==
    /\ last.op = "write" /\ Succeeded
    /\ last.pre.tables = [set |-> TRUE, list |-> << <<"a">> >>]
    /\ tables[last.h] = last.pre.tables
    /\ Len(store[Prefix \o last.table].rows) = 2

\* C19: a create(n, schema) or delete(n) changes no table of the store but
\* Prefix + n; no call changes a table whose name does not start with the
\* prefix; and every name listed or reported existent is the name of a held
\* table whose name starts with the prefix.
C19_Frame ==
    /\ last.op \in {"create", "delete"}
          => \A s \in StoreNames \ {Prefix \o last.table} :
                store[s] = last.pre.store[s]
    /\ \A s \in ForeignNames : store[s] = last.pre.store[s]
    /\ last.op = "tables"
          => \A e \in Elements(last.out.list) :
                /\ Prefix \o e \in StoreNames \ ForeignNames
                /\ store[Prefix \o e].exists
    /\ (last.op = "check" /\ last.out.bool)
          => /\ Prefix \o last.table \in StoreNames \ ForeignNames
             /\ store[Prefix \o last.table].exists

C19_Witness ==
    /\ last.op = "delete" /\ Succeeded
    /\ \E s \in ForeignNames : store[s].exists /\ store[s].rows # <<>>
    /\ \E n \in Names : n # last.table /\ store[Prefix \o n].exists

====
